---- MODULE Spec2Model ----
(***************************************************************************)
(* A model of the chat-history store of phuongho1234/aila:                 *)
(*   src/db/chat_history.py  - provider registry, resolution, ChatStore    *)
(*   src/db/db_provider.py   - SQLiteProvider and its transaction guard    *)
(* Python values are modelled as follows: None is the string None below,   *)
(* a str is a TLA+ string, self._connection = None is connection id 0, a   *)
(* raised exception is the name of its class in the status of a result.    *)
(***************************************************************************)
EXTENDS Integers, Sequences, FiniteSets, TLC

VARIABLES
    PROVIDERS,          \* chat_history._PROVIDERS: name -> provider instance id
    DEFAULT_PROVIDER,   \* chat_history._DEFAULT_PROVIDER
    heap,               \* live provider objects: id -> [kind, db_path, connection]
    conns,              \* sqlite3 connections: id -> [path, owner, thread, open, fk, tx]
    db,                 \* committed contents of each database file
    files,              \* database files that exist on disk
    now,                \* the engine clock behind strftime('now'), millisecond ticks
    last,               \* the call that just returned: [op, args, status, value, inst, conn]
                        \* (value is tagged by its kind: none, inst, conn, path, rows, row)
    calls               \* connect() calls in flight on other threads: thread -> [pc, inst, got]

vars == <<PROVIDERS, DEFAULT_PROVIDER, heap, conns, db, files, now, last, calls>>

----------------------------------------------------------------------------
(* Bounds of the model *)

MaxInstances == 2   \* provider objects alive at once
MaxConns == 2       \* connections opened over a run (registered providers)
MaxClock == 1       \* ticks of the clock
MaxMessages == 1    \* message rows per database file under Spec
MaxStoreMessages == 3  \* message rows per database file under SpecMessages
MaxThreads == 2     \* threads calling connect() at once

----------------------------------------------------------------------------
(* Python values *)

None == "None"

\* bool(s) for an Optional[str]
Truthy(s) == s # None /\ s # ""

DEFAULT_DB_PATH == "/app/data/chat_history.db"
TmpPath == "/tmp/a.db"
BarePath == "a.db"
DirPath == "/tmp"

\* os.path.dirname over the paths of the model
dirname(p) ==
    CASE p = DEFAULT_DB_PATH -> "/app/data"
      [] p = TmpPath -> "/tmp"
      [] p = DirPath -> "/"
      [] OTHER -> ""

\* paths that are directories: sqlite3.connect cannot open them
IsDirectory(p) == p \in {"/", "/tmp", "/app", "/app/data"}

\* paths sqlite3.connect can open as a database file
DbPaths == {DEFAULT_DB_PATH, TmpPath}

\* os.path.exists
exists(fs, p) == p \in fs \/ IsDirectory(p)

----------------------------------------------------------------------------
(* Database contents *)

EmptyStore == [tables |-> {}, messages |-> <<>>, sessions |-> <<>>, seq |-> 0]

Range(f) == {f[x] : x \in DOMAIN f}

----------------------------------------------------------------------------
(* The SQL statements of chat_history.py, as values *)

CreateMessages == [kind |-> "create_messages"]
CreateSessions == [kind |-> "create_sessions"]
InsertMessage(user_id, role, content) ==
    [kind |-> "insert_message", user_id |-> user_id, role |-> role, content |-> content]
SelectHistory(user_id, limit, order) ==
    [kind |-> "select_history", user_id |-> user_id, limit |-> limit, order |-> order]
SelectSession(user_id) == [kind |-> "select_session", user_id |-> user_id]
UpsertSession(user_id, state, incident_type, emotion) ==
    [kind |-> "upsert_session", user_id |-> user_id, state |-> state,
     incident_type |-> incident_type, emotion |-> emotion]

\* the rows of a table (a sequence, in rowid order) that satisfy WHERE user_id = ?
RECURSIVE RowsOf(_, _)
RowsOf(table, user_id) ==
    IF table = <<>> THEN <<>>
    ELSE IF table[1].user_id = user_id
         THEN <<table[1]>> \o RowsOf(Tail(table), user_id)
         ELSE RowsOf(Tail(table), user_id)

\* ORDER BY created_at ASC: created_at is the only sort key of the statement, so
\* the order of rows with equal created_at is the engine's choice, given by
\* order (a ranking of the row ids)
RowBefore(r, q, order) ==
    \/ r.created_at < q.created_at
    \/ r.created_at = q.created_at /\ order[r.id] <= order[q.id]

RECURSIVE OrderByCreatedAt(_, _)
OrderByCreatedAt(S, order) ==
    IF S = {} THEN <<>>
    ELSE LET m == CHOOSE r \in S : \A q \in S : RowBefore(r, q, order)
         IN  <<m>> \o OrderByCreatedAt(S \ {m}, order)

\* LIMIT ?: a negative limit is no upper bound on the number of rows
Limit(rows, n) == IF n < 0 \/ n >= Len(rows) THEN rows ELSE SubSeq(rows, 1, n)

\* an insert that replaces the rows of the table by the new row
insert_message_Overwrite(store, stmt, t) ==
    IF "messages" \notin store.tables
    THEN [status |-> "OperationalError", store |-> store, rows |-> <<>>, begin |-> FALSE]
    ELSE IF stmt.user_id = None \/ stmt.role = None \/ stmt.content = None
    THEN [status |-> "IntegrityError", store |-> store, rows |-> <<>>, begin |-> TRUE]
    ELSE [status |-> "ok",
          store |-> [store EXCEPT
                       !.messages = <<[id |-> store.seq + 1,
                                       user_id |-> stmt.user_id,
                                       role |-> stmt.role,
                                       content |-> stmt.content,
                                       created_at |-> t]>>,
                       !.seq = @ + 1],
          rows |-> <<>>, begin |-> TRUE]

\* INSERT INTO messages (user_id, role, content): the three columns are NOT NULL,
\* id is AUTOINCREMENT, created_at defaults to the clock
insert_message(store, stmt, t) ==
    IF "messages" \notin store.tables
    THEN [status |-> "OperationalError", store |-> store, rows |-> <<>>, begin |-> FALSE]
    ELSE IF stmt.user_id = None \/ stmt.role = None \/ stmt.content = None
    THEN [status |-> "IntegrityError", store |-> store, rows |-> <<>>, begin |-> TRUE]
    ELSE [status |-> "ok",
          store |-> [store EXCEPT
                       !.messages = Append(@, [id |-> store.seq + 1,
                                               user_id |-> stmt.user_id,
                                               role |-> stmt.role,
                                               content |-> stmt.content,
                                               created_at |-> t]),
                       !.seq = @ + 1],
          rows |-> <<>>, begin |-> TRUE]

\* an insert into a sessions table without the key and the ON CONFLICT clause
upsert_session_InsertOnly(store, stmt, t) ==
    IF "sessions" \notin store.tables
    THEN [status |-> "OperationalError", store |-> store, rows |-> <<>>, begin |-> FALSE]
    ELSE [status |-> "ok",
          store |-> [store EXCEPT
                       !.sessions = Append(@, [user_id |-> stmt.user_id,
                                               state |-> stmt.state,
                                               incident_type |-> stmt.incident_type,
                                               emotion |-> stmt.emotion,
                                               updated_at |-> t])],
          rows |-> <<>>, begin |-> TRUE]

\* the value a patching update keeps for a column: the old one when the new is None
Coalesce(new, old) == IF new = None THEN old ELSE new

\* an upsert that updates only the columns that are given (a partial patch)
upsert_session_Patch(store, stmt, t) ==
    LET hit == {k \in DOMAIN store.sessions : store.sessions[k].user_id = stmt.user_id}
    IN  IF "sessions" \notin store.tables
        THEN [status |-> "OperationalError", store |-> store, rows |-> <<>>, begin |-> FALSE]
        ELSE [status |-> "ok",
              store |-> [store EXCEPT
                           !.sessions =
                              IF hit = {}
                              THEN Append(@, [user_id |-> stmt.user_id,
                                              state |-> stmt.state,
                                              incident_type |-> stmt.incident_type,
                                              emotion |-> stmt.emotion,
                                              updated_at |-> t])
                              ELSE [k \in DOMAIN @ |->
                                      IF k \in hit
                                      THEN [user_id |-> stmt.user_id,
                                            state |-> Coalesce(stmt.state, @[k].state),
                                            incident_type |->
                                               Coalesce(stmt.incident_type, @[k].incident_type),
                                            emotion |-> Coalesce(stmt.emotion, @[k].emotion),
                                            updated_at |-> t]
                                      ELSE @[k]]],
              rows |-> <<>>, begin |-> TRUE]

\* INSERT INTO sessions ... ON CONFLICT(user_id) DO UPDATE SET state=excluded.state, ...
upsert_session(store, stmt, t) ==
    LET row == [user_id |-> stmt.user_id, state |-> stmt.state,
                incident_type |-> stmt.incident_type, emotion |-> stmt.emotion,
                updated_at |-> t]
        hit == {k \in DOMAIN store.sessions : store.sessions[k].user_id = stmt.user_id}
    IN  IF "sessions" \notin store.tables
        THEN [status |-> "OperationalError", store |-> store, rows |-> <<>>, begin |-> FALSE]
        ELSE [status |-> "ok",
              store |-> [store EXCEPT
                           !.sessions = IF hit = {} THEN Append(@, row)
                                        ELSE [k \in DOMAIN @ |-> IF k \in hit THEN row ELSE @[k]]],
              rows |-> <<>>, begin |-> TRUE]

\* the SELECT of get_history without its WHERE clause
select_history_AllUsers(store, stmt) ==
    IF "messages" \notin store.tables
    THEN [status |-> "OperationalError", store |-> store, rows |-> <<>>, begin |-> FALSE]
    ELSE [status |-> "ok", store |-> store,
          rows |-> Limit(OrderByCreatedAt(Range(store.messages), stmt.order), stmt.limit),
          begin |-> FALSE]

\* SELECT ... FROM messages WHERE user_id = ? ORDER BY created_at ASC LIMIT ?
select_history(store, stmt) ==
    IF "messages" \notin store.tables
    THEN [status |-> "OperationalError", store |-> store, rows |-> <<>>, begin |-> FALSE]
    ELSE [status |-> "ok", store |-> store,
          rows |-> Limit(OrderByCreatedAt(Range(RowsOf(store.messages, stmt.user_id)),
                                          stmt.order), stmt.limit),
          begin |-> FALSE]

\* SELECT ... FROM sessions WHERE user_id = ?
select_session(store, stmt) ==
    IF "sessions" \notin store.tables
    THEN [status |-> "OperationalError", store |-> store, rows |-> <<>>, begin |-> FALSE]
    ELSE [status |-> "ok", store |-> store,
          rows |-> RowsOf(store.sessions, stmt.user_id), begin |-> FALSE]

\* CREATE TABLE without IF NOT EXISTS: an existing table is an error
create_table(store, name) ==
    IF name \in store.tables
    THEN [status |-> "OperationalError", store |-> store, rows |-> <<>>, begin |-> FALSE]
    ELSE [status |-> "ok", store |-> [store EXCEPT !.tables = @ \cup {name}],
          rows |-> <<>>, begin |-> FALSE]

\* CREATE TABLE IF NOT EXISTS name: nothing happens when the table exists
create_table_if_not_exists(store, name) ==
    [status |-> "ok", store |-> [store EXCEPT !.tables = @ \cup {name}],
     rows |-> <<>>, begin |-> FALSE]

\* One statement run by the engine on the contents store at clock t. A statement
\* is atomic: when it raises, store is returned as it was. begin tells whether
\* the sqlite3 module opened a transaction for it (it does before INSERT, once
\* the statement compiled; not for SELECT or CREATE TABLE).
ExecStmt(store, stmt, t) ==
    CASE stmt.kind = "create_messages" -> create_table_if_not_exists(store, "messages")
      [] stmt.kind = "create_sessions" -> create_table_if_not_exists(store, "sessions")
      [] stmt.kind = "insert_message" -> insert_message(store, stmt, t)
      [] stmt.kind = "upsert_session" -> upsert_session(store, stmt, t)
      [] stmt.kind = "select_history" -> select_history(store, stmt)
      [] stmt.kind = "select_session" -> select_session(store, stmt)

----------------------------------------------------------------------------
(* SQLiteProvider (db_provider.py). A world w is the part of the state a     *)
(* provider method can touch: [heap, conns, db, files].                      *)

World == [heap |-> heap, conns |-> conns, db |-> db, files |-> files]

FreshInst(w) == Cardinality(DOMAIN w.heap) + 1
FreshConn(w) == Cardinality(DOMAIN w.conns) + 1

\* SQLiteProvider.__init__(db_path, auto_create_dir) for the new object id:
\* os.makedirs(os.path.dirname(db_path), exist_ok=True) raises FileNotFoundError
\* for the empty directory name of a path without a directory part
SQLiteProvider_init(w, id, db_path, auto_create_dir) ==
    IF auto_create_dir /\ dirname(db_path) = ""
    THEN [status |-> "FileNotFoundError", w |-> w, inst |-> 0]
    ELSE [status |-> "ok", inst |-> id,
          w |-> [w EXCEPT !.heap = @ @@ (id :> [kind |-> "SQLiteProvider",
                                                db_path |-> db_path, connection |-> 0])]]

\* create_sqlite_provider(db_path, auto_create_dir=True)
create_sqlite_provider(w, db_path) == SQLiteProvider_init(w, FreshInst(w), db_path, TRUE)

\* the thread of the sequential calls, and the threads that call connect()
\* concurrently
MainThread == 0
Threads == 1..MaxThreads

\* self._connection = sqlite3.connect(self.db_path) on thread th: sqlite3.connect
\* creates the file when it is missing and raises OperationalError when the
\* path cannot be opened as a file; a new connection does not enforce foreign
\* keys and belongs to the thread that opened it
sqlite3_connect(w, i, th) ==
    LET p == w.heap[i].db_path
        c == FreshConn(w)
    IN  IF p \notin DbPaths
        THEN [status |-> "OperationalError", w |-> w, conn |-> 0]
        ELSE [status |-> "ok", conn |-> c,
              w |-> [w EXCEPT !.heap[i].connection = c,
                              !.conns = @ @@ (c :> [path |-> p, owner |-> i, thread |-> th,
                                                    open |-> TRUE, fk |-> FALSE,
                                                    tx |-> <<>>]),
                              !.files = @ \cup {p}]]

\* a connect() that does not run the PRAGMA
foreign_keys_on_Skipped(a, i, th) == a

\* self._connection.execute("PRAGMA foreign_keys = ON") on thread th, after
\* sqlite3.connect returned a; then return self._connection. The connection
\* is the one the provider holds now, and sqlite3 raises ProgrammingError
\* when it is used on a thread other than the one that opened it.
foreign_keys_on(a, i, th) ==
    IF a.status # "ok"
    THEN a
    ELSE IF a.w.conns[a.w.heap[i].connection].thread # th
    THEN [status |-> "ProgrammingError", w |-> a.w, conn |-> 0]
    ELSE [status |-> "ok", conn |-> a.w.heap[i].connection,
          w |-> [a.w EXCEPT !.conns[a.w.heap[i].connection].fk = TRUE]]

\* SQLiteProvider.connect()
connect(w, i) ==
    IF w.heap[i].connection # 0
    THEN [status |-> "ok", w |-> w, conn |-> w.heap[i].connection]
    ELSE foreign_keys_on(sqlite3_connect(w, i, MainThread), i, MainThread)

\* a close() that closes the connection and keeps it in self._connection
close_KeepsHandle(w, i) ==
    LET c == w.heap[i].connection
    IN  IF c # 0
        THEN [w EXCEPT !.conns[c].open = FALSE, !.conns[c].tx = <<>>]
        ELSE w

\* SQLiteProvider.close(): closing discards an open transaction
close(w, i) ==
    LET c == w.heap[i].connection
    IN  IF c # 0
        THEN [w EXCEPT !.conns[c].open = FALSE, !.conns[c].tx = <<>>,
                       !.heap[i].connection = 0]
        ELSE w

\* the contents a statement on connection c works on: inside a transaction
\* the transaction's copy, outside one the committed contents
Base(w, c) == IF w.conns[c].tx = <<>> THEN w.db[w.conns[c].path] ELSE w.conns[c].tx[1]

\* the effect r of a statement on connection c: kept in the transaction when
\* one is open or was begun for it, committed at once otherwise
Stored(w, c, r) ==
    [status |-> r.status, rows |-> r.rows,
     w |-> IF r.begin \/ w.conns[c].tx # <<>>
           THEN [w EXCEPT !.conns[c].tx = <<r.store>>]
           ELSE [w EXCEPT !.db[w.conns[c].path] = r.store]]

\* cursor.execute(query, params) on connection c
cursor_execute(w, c, stmt, t) == Stored(w, c, ExecStmt(Base(w, c), stmt, t))

\* a commit that ends the transaction without writing its changes
commit_Discard(w, c) == [w EXCEPT !.conns[c].tx = <<>>]

\* conn.commit()
commit(w, c) ==
    IF w.conns[c].tx # <<>>
    THEN [w EXCEPT !.db[w.conns[c].path] = w.conns[c].tx[1], !.conns[c].tx = <<>>]
    ELSE w

\* conn.rollback()
rollback(w, c) == [w EXCEPT !.conns[c].tx = <<>>]

\* a guard whose except branch raises again without conn.rollback()
get_connection_exit_NoRollback(b, c) ==
    IF b.status = "ok"
    THEN [status |-> "ok", w |-> commit(b.w, c), rows |-> b.rows, conn |-> c]
    ELSE [status |-> b.status, w |-> b.w, rows |-> <<>>, conn |-> c]

\* a guard that leaves the with block without conn.commit()
get_connection_exit_NoCommit(b, c) ==
    IF b.status = "ok"
    THEN [status |-> "ok", w |-> b.w, rows |-> b.rows, conn |-> c]
    ELSE [status |-> b.status, w |-> rollback(b.w, c), rows |-> <<>>, conn |-> c]

\* get_connection, after the with body b ran on connection c: its normal end
\* commits, an exception rolls back and is raised again; the connection is
\* left open
get_connection_exit(b, c) ==
    IF b.status = "ok"
    THEN [status |-> "ok", w |-> commit(b.w, c), rows |-> b.rows, conn |-> c]
    ELSE [status |-> b.status, w |-> rollback(b.w, c), rows |-> <<>>, conn |-> c]

\* get_connection, after conn = self.connect() returned a: an exception of
\* connect() is raised before the try; otherwise the with body runs the
\* statement on a cursor
get_connection_enter(a, stmt, t) ==
    IF a.status # "ok"
    THEN [status |-> a.status, w |-> a.w, rows |-> <<>>, conn |-> 0]
    ELSE get_connection_exit(cursor_execute(a.w, a.conn, stmt, t), a.conn)

\* with self.get_connection() as conn: conn.cursor().execute(stmt)
get_connection(w, i, stmt, t) == get_connection_enter(connect(w, i), stmt, t)

\* what execute returns from the guarded statement g: nothing
NoRows(g) == [status |-> g.status, w |-> g.w, conn |-> g.conn, value |-> <<>>]

\* cursor.fetchone(): <<>> for None, <<row>> for a row
FetchOne(g) ==
    [status |-> g.status, w |-> g.w, conn |-> g.conn,
     value |-> IF g.rows = <<>> THEN <<>> ELSE <<g.rows[1]>>]

\* cursor.fetchall()
FetchAll(g) == [status |-> g.status, w |-> g.w, conn |-> g.conn, value |-> g.rows]

\* SQLiteProvider.execute
execute(w, i, stmt, t) == NoRows(get_connection(w, i, stmt, t))

\* SQLiteProvider.fetch_one
fetch_one(w, i, stmt, t) == FetchOne(get_connection(w, i, stmt, t))

\* SQLiteProvider.fetch_all
fetch_all(w, i, stmt, t) == FetchAll(get_connection(w, i, stmt, t))

\* SQLiteProvider.get_connection_info()
get_connection_info(w, i) ==
    [type |-> "sqlite", db_path |-> w.heap[i].db_path,
     exists |-> exists(w.files, w.heap[i].db_path)]

----------------------------------------------------------------------------
(* The stub providers and the factory (db_provider.py) *)

\* a PostgreSQLProvider whose constructor returns the object
PostgreSQLProvider_init_Implemented(w, id, host, port, database, user, password) ==
    [status |-> "ok", inst |-> id,
     w |-> [w EXCEPT !.heap = @ @@ (id :> [kind |-> "PostgreSQLProvider",
                                           db_path |-> None, connection |-> 0])]]

\* PostgreSQLProvider.__init__: stores its arguments and raises
\* NotImplementedError, so the caller never gets the object
PostgreSQLProvider_init(w, id, host, port, database, user, password) ==
    [status |-> "NotImplementedError", inst |-> 0, w |-> w]

\* MySQLProvider.__init__: the same
MySQLProvider_init(w, id, host, port, database, user, password) ==
    [status |-> "NotImplementedError", inst |-> 0, w |-> w]

\* str.lower over the type names of the model
lower(s) ==
    CASE s = "SQLite" -> "sqlite"
      [] s = "PostgreSQL" -> "postgresql"
      [] OTHER -> s

\* dict.get(key, default); a config is a function from its keys to values
get(config, key, default) == IF key \in DOMAIN config THEN config[key] ELSE default

\* the keys the factory reads with config[...] for the network types
NetworkFields == {"host", "database", "user", "password"}

\* an exception raised by the factory itself
FactoryError(status, w) == [status |-> status, inst |-> 0, w |-> w]

\* create_provider_from_config once provider_type is computed
create_provider_of_type(w, config, provider_type) ==
    IF provider_type = "sqlite"
    THEN IF "db_path" \notin DOMAIN config
         THEN FactoryError("KeyError", w)
         ELSE SQLiteProvider_init(w, FreshInst(w), config["db_path"],
                                  get(config, "auto_create_dir", TRUE))
    ELSE IF provider_type = "postgresql"
    THEN IF ~(NetworkFields \subseteq DOMAIN config)
         THEN FactoryError("KeyError", w)
         ELSE PostgreSQLProvider_init(w, FreshInst(w), config["host"],
                                      get(config, "port", 5432), config["database"],
                                      config["user"], config["password"])
    ELSE IF provider_type = "mysql"
    THEN IF ~(NetworkFields \subseteq DOMAIN config)
         THEN FactoryError("KeyError", w)
         ELSE MySQLProvider_init(w, FreshInst(w), config["host"],
                                 get(config, "port", 3306), config["database"],
                                 config["user"], config["password"])
    ELSE FactoryError("ValueError", w)

\* create_provider_from_config(config): config.get("type", "").lower() raises
\* AttributeError when the value of type is None
create_provider_from_config(w, config) ==
    IF get(config, "type", "") = None
    THEN FactoryError("AttributeError", w)
    ELSE create_provider_of_type(w, config, lower(get(config, "type", "")))

----------------------------------------------------------------------------
(* The provider registry (chat_history.py) *)

\* list_providers()
list_providers(reg, w) == [n \in DOMAIN reg |-> get_connection_info(w, reg[n])]

\* get_default_provider()
get_default_provider == DEFAULT_PROVIDER

\* the provider n built for an explicit path, as the result of a resolution
Built(n, reg) == [status |-> n.status, inst |-> n.inst, w |-> n.w, reg |-> reg]

\* a resolution that keeps the provider it builds for a path in the registry
resolve_provider_Caching(reg, dflt, w, db_path, provider) ==
    IF Truthy(db_path)
    THEN Built(create_sqlite_provider(w, db_path),
               [k \in DOMAIN reg \cup {db_path} |->
                   IF k = db_path THEN FreshInst(w) ELSE reg[k]])
    ELSE IF Truthy(provider)
    THEN IF provider \notin DOMAIN reg
         THEN [status |-> "KeyError", inst |-> 0, w |-> w, reg |-> reg]
         ELSE [status |-> "ok", inst |-> reg[provider], w |-> w, reg |-> reg]
    ELSE [status |-> "ok", inst |-> reg[dflt], w |-> w, reg |-> reg]

\* _resolve_provider(db_path, provider) -> the provider object inst, or an error.
\* reg and dflt are _PROVIDERS and _DEFAULT_PROVIDER; the result carries the
\* registry as the call leaves it.
_resolve_provider(reg, dflt, w, db_path, provider) ==
    IF Truthy(db_path)
    THEN Built(create_sqlite_provider(w, db_path), reg)
    ELSE IF Truthy(provider)
    THEN IF provider \notin DOMAIN reg
         THEN [status |-> "KeyError", inst |-> 0, w |-> w, reg |-> reg]
         ELSE [status |-> "ok", inst |-> reg[provider], w |-> w, reg |-> reg]
    ELSE [status |-> "ok", inst |-> reg[dflt], w |-> w, reg |-> reg]

\* The provider built for an explicit db_path is a local of the calling
\* function: when the function returns, the object and its connection are
\* released.
Release(w, db_path, inst) ==
    IF Truthy(db_path) /\ inst # 0
    THEN [w EXCEPT !.heap = [j \in DOMAIN @ \ {inst} |-> @[j]],
                   !.conns = [c \in DOMAIN @ \ {w.heap[inst].connection} |-> @[c]]]
    ELSE w

\* set_default_provider without the membership test
set_default_provider_Unchecked(reg, dflt, name) == [status |-> "ok", dflt |-> name]

\* set_default_provider assigning before the membership test
set_default_provider_AssignFirst(reg, dflt, name) ==
    IF name \notin DOMAIN reg
    THEN [status |-> "KeyError", dflt |-> name]
    ELSE [status |-> "ok", dflt |-> name]

\* set_default_provider(name) -> the default name after the call, or KeyError
set_default_provider(reg, dflt, name) ==
    IF name \notin DOMAIN reg
    THEN [status |-> "KeyError", dflt |-> dflt]
    ELSE [status |-> "ok", dflt |-> name]

\* _PROVIDERS[name] = provider
Bind(reg, name, provider) ==
    [n \in DOMAIN reg \cup {name} |-> IF n = name THEN provider ELSE reg[n]]

\* the default after set_default_provider returned d
WithDefault(reg, d) == [status |-> d.status, reg |-> reg, dflt |-> d.dflt]

\* register_provider once the name is bound: if make_default: set_default_provider(name)
Registered(reg, dflt, name, make_default) ==
    IF make_default
    THEN WithDefault(reg, set_default_provider(reg, dflt, name))
    ELSE [status |-> "ok", reg |-> reg, dflt |-> dflt]

\* a register_provider that sets the default before it binds the name
register_provider_DefaultFirst(reg, dflt, name, provider, make_default) ==
    IF make_default /\ name \notin DOMAIN reg
    THEN [status |-> "KeyError", reg |-> reg, dflt |-> dflt]
    ELSE Registered(Bind(reg, name, provider), dflt, name, make_default)

\* register_provider(name, provider, make_default)
register_provider(reg, dflt, name, provider, make_default) ==
    Registered(Bind(reg, name, provider), dflt, name, make_default)

----------------------------------------------------------------------------
(* ChatStore (chat_history.py). Each operator is one function: its result    *)
(* carries the status (ok or the exception raised), the returned value, the  *)
(* world and registry as the call leaves them, and the provider object and   *)
(* connection it used.                                                       *)

\* a timestamp column that is None
NoTime == 0 - 1

\* the exception of a failed resolution or provider call leaves the function
Raise(status, w, reg, db_path, inst, conn) ==
    [status |-> status, value |-> <<>>, w |-> Release(w, db_path, inst), reg |-> reg,
     inst |-> inst, conn |-> conn]

\* the end of a ChatStore function whose provider call returned e: an
\* exception leaves the function, otherwise value is returned
Completed(r, e, db_path, value) ==
    IF e.status # "ok"
    THEN Raise(e.status, e.w, r.reg, db_path, r.inst, e.conn)
    ELSE [status |-> "ok", value |-> value, w |-> Release(e.w, db_path, r.inst),
          reg |-> r.reg, inst |-> r.inst, conn |-> e.conn]

\* init_db after both tables were created: return info.get('db_path', str(info))
init_db_return(r, e2, db_path) ==
    Completed(r, e2, db_path, get_connection_info(e2.w, r.inst).db_path)

\* init_db after CREATE TABLE IF NOT EXISTS messages returned e1
init_db_sessions(r, e1, t, db_path) ==
    IF e1.status # "ok"
    THEN Raise(e1.status, e1.w, r.reg, db_path, r.inst, e1.conn)
    ELSE init_db_return(r, execute(e1.w, r.inst, CreateSessions, t), db_path)

\* init_db after the resolution r
init_db_messages(r, t, db_path) ==
    IF r.status # "ok"
    THEN Raise(r.status, r.w, r.reg, db_path, 0, 0)
    ELSE init_db_sessions(r, execute(r.w, r.inst, CreateMessages, t), t, db_path)

\* init_db(db_path, provider) -> the path of the database
init_db(reg, dflt, w, t, db_path, provider) ==
    init_db_messages(_resolve_provider(reg, dflt, w, db_path, provider), t, db_path)

\* save_message after the resolution r
save_message_insert(r, t, user_id, role, content, db_path) ==
    IF r.status # "ok"
    THEN Raise(r.status, r.w, r.reg, db_path, 0, 0)
    ELSE Completed(r, execute(r.w, r.inst, InsertMessage(user_id, role, content), t),
                   db_path, <<>>)

\* save_message(user_id, role, content, db_path, provider)
save_message(reg, dflt, w, t, user_id, role, content, db_path, provider) ==
    save_message_insert(_resolve_provider(reg, dflt, w, db_path, provider), t,
                        user_id, role, content, db_path)

\* get_history once the rows are fetched: the list of dicts, one per row
get_history_rows(r, e, db_path) == Completed(r, e, db_path, e.value)

\* get_history after the resolution r
get_history_select(r, t, user_id, limit, db_path, order) ==
    IF r.status # "ok"
    THEN Raise(r.status, r.w, r.reg, db_path, 0, 0)
    ELSE get_history_rows(r, fetch_all(r.w, r.inst, SelectHistory(user_id, limit, order), t),
                          db_path)

\* get_history(user_id, limit, db_path, provider) -> the list of message dicts;
\* order is the engine's ranking of rows with equal created_at
get_history(reg, dflt, w, t, user_id, limit, db_path, provider, order) ==
    get_history_select(_resolve_provider(reg, dflt, w, db_path, provider), t,
                       user_id, limit, db_path, order)

\* get_session_state once the row is fetched: the defaults if not row, else
\* the dict of the row
get_session_state_row(r, e, user_id, db_path) ==
    Completed(r, e, db_path,
              IF e.value = <<>>
              THEN [user_id |-> user_id, state |-> None, incident_type |-> None,
                    emotion |-> None, updated_at |-> NoTime]
              ELSE e.value[1])

\* get_session_state after the resolution r
get_session_state_select(r, t, user_id, db_path) ==
    IF r.status # "ok"
    THEN Raise(r.status, r.w, r.reg, db_path, 0, 0)
    ELSE get_session_state_row(r, fetch_one(r.w, r.inst, SelectSession(user_id), t),
                               user_id, db_path)

\* get_session_state(user_id, db_path, provider) -> the session dict
get_session_state(reg, dflt, w, t, user_id, db_path, provider) ==
    get_session_state_select(_resolve_provider(reg, dflt, w, db_path, provider), t,
                             user_id, db_path)

\* set_session_state after the resolution r
set_session_state_upsert(r, t, user_id, state, incident_type, emotion, db_path) ==
    IF r.status # "ok"
    THEN Raise(r.status, r.w, r.reg, db_path, 0, 0)
    ELSE Completed(r, execute(r.w, r.inst,
                              UpsertSession(user_id, state, incident_type, emotion), t),
                   db_path, <<>>)

\* set_session_state(user_id, state, incident_type, emotion, db_path, provider)
set_session_state(reg, dflt, w, t, user_id, state, incident_type, emotion, db_path, provider) ==
    set_session_state_upsert(_resolve_provider(reg, dflt, w, db_path, provider), t,
                             user_id, state, incident_type, emotion, db_path)

----------------------------------------------------------------------------
(* The calls a client makes. Each action is one call that runs to its return *)
(* or its exception, and records it in last.                                 *)

\* what a call that raised, or that returns None, hands to its caller
NoValue == [none |-> TRUE]

\* the value a ChatStore function returns, by its return type: the path of
\* init_db, the list of get_history, the dict of get_session_state
Returned(op, res) ==
    IF res.status # "ok" THEN NoValue
    ELSE CASE op = "init_db" -> [path |-> res.value]
           [] op = "get_history" -> [rows |-> res.value]
           [] op = "get_session_state" -> [row |-> res.value]
           [] OTHER -> NoValue

\* the provider object a constructor or a resolution returns
ReturnedInst(i) == IF i = 0 THEN NoValue ELSE [inst |-> i]

\* the connection connect() returns
ReturnedConn(c) == IF c = 0 THEN NoValue ELSE [conn |-> c]

\* the state a ChatStore call leaves
Returns(op, args, res) ==
    /\ PROVIDERS' = res.reg
    /\ heap' = res.w.heap
    /\ conns' = res.w.conns
    /\ db' = res.w.db
    /\ files' = res.w.files
    /\ last' = [op |-> op, args |-> args, status |-> res.status, value |-> Returned(op, res),
                inst |-> res.inst, conn |-> res.conn]
    /\ UNCHANGED <<DEFAULT_PROVIDER, now, calls>>

\* the connections ever opened by the live providers stay within the bound
FewConns == Cardinality(DOMAIN conns') <= MaxConns

Call_init_db(db_path, provider) ==
    /\ Returns("init_db", [db_path |-> db_path, provider |-> provider],
               init_db(PROVIDERS, DEFAULT_PROVIDER, World, now, db_path, provider))
    /\ FewConns

Call_save_message(user_id, role, content, db_path, provider) ==
    /\ Returns("save_message",
               [user_id |-> user_id, role |-> role, content |-> content,
                db_path |-> db_path, provider |-> provider],
               save_message(PROVIDERS, DEFAULT_PROVIDER, World, now, user_id, role,
                            content, db_path, provider))
    /\ FewConns

Call_get_history(user_id, limit, db_path, provider, order) ==
    /\ Returns("get_history",
               [user_id |-> user_id, limit |-> limit, db_path |-> db_path,
                provider |-> provider],
               get_history(PROVIDERS, DEFAULT_PROVIDER, World, now, user_id, limit,
                           db_path, provider, order))
    /\ FewConns

Call_get_session_state(user_id, db_path, provider) ==
    /\ Returns("get_session_state",
               [user_id |-> user_id, db_path |-> db_path, provider |-> provider],
               get_session_state(PROVIDERS, DEFAULT_PROVIDER, World, now, user_id,
                                 db_path, provider))
    /\ FewConns

Call_set_session_state(user_id, state, incident_type, emotion, db_path, provider) ==
    /\ Returns("set_session_state",
               [user_id |-> user_id, state |-> state, incident_type |-> incident_type,
                emotion |-> emotion, db_path |-> db_path, provider |-> provider],
               set_session_state(PROVIDERS, DEFAULT_PROVIDER, World, now, user_id, state,
                                 incident_type, emotion, db_path, provider))
    /\ FewConns

\* the state a direct call of _resolve_provider leaves: the provider built for
\* a db_path is returned to the caller and stays alive
Resolved(db_path, provider, r) ==
    /\ PROVIDERS' = r.reg
    /\ heap' = r.w.heap
    /\ last' = [op |-> "_resolve_provider",
                args |-> [db_path |-> db_path, provider |-> provider],
                status |-> r.status, value |-> ReturnedInst(r.inst), inst |-> r.inst,
                conn |-> 0]
    /\ UNCHANGED <<DEFAULT_PROVIDER, conns, db, files, now, calls>>

Call_resolve_provider(db_path, provider) ==
    /\ Resolved(db_path, provider,
                _resolve_provider(PROVIDERS, DEFAULT_PROVIDER, World, db_path, provider))
    /\ Cardinality(DOMAIN heap') <= MaxInstances

\* the state provider = create_sqlite_provider(db_path) in client code leaves
Created(db_path, r) ==
    /\ heap' = r.w.heap
    /\ last' = [op |-> "create_sqlite_provider", args |-> [db_path |-> db_path],
                status |-> r.status, value |-> ReturnedInst(r.inst), inst |-> r.inst,
                conn |-> 0]
    /\ UNCHANGED <<PROVIDERS, DEFAULT_PROVIDER, conns, db, files, now, calls>>

Call_create_sqlite_provider(db_path) ==
    /\ Created(db_path, create_sqlite_provider(World, db_path))
    /\ Cardinality(DOMAIN heap') <= MaxInstances

\* the state register_provider leaves
RegisteredAs(name, provider, make_default, r) ==
    /\ PROVIDERS' = r.reg
    /\ DEFAULT_PROVIDER' = r.dflt
    /\ last' = [op |-> "register_provider",
                args |-> [name |-> name, provider |-> provider,
                          make_default |-> make_default],
                status |-> r.status, value |-> NoValue, inst |-> provider, conn |-> 0]
    /\ UNCHANGED <<heap, conns, db, files, now, calls>>

Call_register_provider(name, provider, make_default) ==
    /\ provider \in DOMAIN heap
    /\ RegisteredAs(name, provider, make_default,
                    register_provider(PROVIDERS, DEFAULT_PROVIDER, name, provider,
                                      make_default))

\* the state set_default_provider leaves
DefaultSet(name, r) ==
    /\ DEFAULT_PROVIDER' = r.dflt
    /\ last' = [op |-> "set_default_provider", args |-> [name |-> name],
                status |-> r.status, value |-> NoValue, inst |-> 0, conn |-> 0]
    /\ UNCHANGED <<PROVIDERS, heap, conns, db, files, now, calls>>

Call_set_default_provider(name) ==
    /\ name # None
    /\ DefaultSet(name, set_default_provider(PROVIDERS, DEFAULT_PROVIDER, name))

\* the state provider.connect() leaves
Connected(i, r) ==
    /\ heap' = r.w.heap
    /\ conns' = r.w.conns
    /\ files' = r.w.files
    /\ last' = [op |-> "connect", args |-> [provider |-> i], status |-> r.status,
                value |-> ReturnedConn(r.conn), inst |-> i, conn |-> r.conn]
    /\ UNCHANGED <<PROVIDERS, DEFAULT_PROVIDER, db, now, calls>>

\* provider.connect() on a live provider object
Call_connect(i) ==
    /\ i \in DOMAIN heap
    /\ Connected(i, connect(World, i))
    /\ FewConns

\* the state provider.close() leaves
Closed(i, w) ==
    /\ heap' = w.heap
    /\ conns' = w.conns
    /\ last' = [op |-> "close", args |-> [provider |-> i], status |-> "ok",
                value |-> NoValue, inst |-> i, conn |-> heap[i].connection]
    /\ UNCHANGED <<PROVIDERS, DEFAULT_PROVIDER, db, files, now, calls>>

\* provider.close() on a live provider object
Call_close(i) ==
    /\ i \in DOMAIN heap
    /\ Closed(i, close(World, i))

\* the state a constructor or factory call in client code leaves
Constructed(op, args, r) ==
    /\ heap' = r.w.heap
    /\ last' = [op |-> op, args |-> args, status |-> r.status,
                value |-> ReturnedInst(r.inst),
                inst |-> r.inst, conn |-> 0]
    /\ UNCHANGED <<PROVIDERS, DEFAULT_PROVIDER, conns, db, files, now, calls>>

Call_create_provider_from_config(config) ==
    /\ Constructed("create_provider_from_config", [config |-> config],
                   create_provider_from_config(World, config))
    /\ Cardinality(DOMAIN heap') <= MaxInstances

Call_PostgreSQLProvider(host, port, database, user, password) ==
    /\ Constructed("PostgreSQLProvider",
                   [host |-> host, port |-> port, database |-> database, user |-> user,
                    password |-> password],
                   PostgreSQLProvider_init(World, FreshInst(World), host, port, database,
                                           user, password))
    /\ Cardinality(DOMAIN heap') <= MaxInstances

Call_MySQLProvider(host, port, database, user, password) ==
    /\ Constructed("MySQLProvider",
                   [host |-> host, port |-> port, database |-> database, user |-> user,
                    password |-> password],
                   MySQLProvider_init(World, FreshInst(World), host, port, database,
                                      user, password))
    /\ Cardinality(DOMAIN heap') <= MaxInstances

\* the record of a connect() call of thread t on provider i
ConnectCall(t, i, status, c) ==
    [op |-> "connect", args |-> [provider |-> i, thread |-> t], status |-> status,
     value |-> ReturnedConn(c), inst |-> i, conn |-> c]

\* thread t calls connect() on provider i and tests self._connection is None
Thread_connect_test(t, i) ==
    /\ calls[t].pc = "idle"
    /\ i \in DOMAIN heap
    /\ calls' = [calls EXCEPT ![t] = [pc |-> IF heap[i].connection = 0
                                             THEN "open" ELSE "return",
                                      inst |-> i, got |-> 0]]
    /\ UNCHANGED <<PROVIDERS, DEFAULT_PROVIDER, heap, conns, db, files, now, last>>

\* the state sqlite3.connect and the assignment to self._connection leave
Opened(t, r) ==
    /\ heap' = r.w.heap
    /\ conns' = r.w.conns
    /\ files' = r.w.files
    /\ calls' = [calls EXCEPT ![t].pc = IF r.status = "ok" THEN "pragma" ELSE "idle"]
    /\ last' = IF r.status = "ok" THEN last
               ELSE ConnectCall(t, calls[t].inst, r.status, 0)
    /\ UNCHANGED <<PROVIDERS, DEFAULT_PROVIDER, db, now>>

\* thread t, having found no connection, opens one and stores it
Thread_sqlite3_connect(t) ==
    /\ calls[t].pc = "open"
    /\ Opened(t, sqlite3_connect(World, calls[t].inst, t))
    /\ FewConns

\* the state the PRAGMA on self._connection leaves
PragmaDone(t, r) ==
    /\ conns' = r.w.conns
    /\ calls' = [calls EXCEPT ![t].pc = IF r.status = "ok" THEN "return" ELSE "idle"]
    /\ last' = IF r.status = "ok" THEN last
               ELSE ConnectCall(t, calls[t].inst, r.status, 0)
    /\ UNCHANGED <<PROVIDERS, DEFAULT_PROVIDER, heap, db, files, now>>

\* thread t enables foreign keys on the connection the provider holds now
Thread_foreign_keys_on(t) ==
    /\ calls[t].pc = "pragma"
    /\ PragmaDone(t, foreign_keys_on([status |-> "ok", w |-> World, conn |-> 0],
                                      calls[t].inst, t))

\* thread t returns self._connection
Thread_connect_return(t) ==
    /\ calls[t].pc = "return"
    /\ calls' = [calls EXCEPT ![t].pc = "idle", ![t].got = heap[calls[t].inst].connection]
    /\ last' = ConnectCall(t, calls[t].inst, "ok", heap[calls[t].inst].connection)
    /\ UNCHANGED <<PROVIDERS, DEFAULT_PROVIDER, heap, conns, db, files, now>>

\* a millisecond passes on the engine's clock
Tick ==
    /\ now < MaxClock
    /\ now' = now + 1
    /\ last' = [op |-> "tick", args |-> <<>>, status |-> "ok", value |-> NoValue,
                inst |-> 0, conn |-> 0]
    /\ UNCHANGED <<PROVIDERS, DEFAULT_PROVIDER, heap, conns, db, files, calls>>

----------------------------------------------------------------------------
(* Module start-up: chat_history.py creates the default provider and         *)
(* registers it under "default"; nothing is connected and no file exists.    *)

Init ==
    /\ PROVIDERS = ("default" :> 1)
    /\ DEFAULT_PROVIDER = "default"
    /\ heap = (1 :> [kind |-> "SQLiteProvider", db_path |-> DEFAULT_DB_PATH,
                     connection |-> 0])
    /\ conns = <<>>
    /\ db = [p \in DbPaths |-> EmptyStore]
    /\ files = {}
    /\ now = 0
    /\ last = [op |-> "import", args |-> <<>>, status |-> "ok", value |-> NoValue,
               inst |-> 1, conn |-> 0]
    /\ calls = [t \in Threads |-> [pc |-> "idle", inst |-> 0, got |-> 0]]

----------------------------------------------------------------------------
(* Spec: every call, with the arguments that matter to the registry and to   *)
(* resolution. The store holds one user and few rows.                        *)

ProviderArgs == {None, "", "default", "missing"}
RegNames == {"default", ""}
NewPaths == {BarePath, DEFAULT_DB_PATH}

\* (db_path, provider) of the ChatStore calls: no path with each kind of
\* provider argument, and a usable path with and without a provider name
Targets ==
    ({None} \X ProviderArgs) \cup ({DEFAULT_DB_PATH} \X {None, "missing"})

\* the other kinds of path, as scripts/init_db.py passes them to init_db
InitTargets == Targets \cup ({"", BarePath, DirPath} \X {None})

FewMessages == \A p \in DbPaths : Len(db'[p].messages) <= MaxMessages

Next ==
    \/ \E p \in NewPaths : Call_create_sqlite_provider(p)
    \/ \E n \in RegNames, i \in 1..MaxInstances, m \in BOOLEAN :
          Call_register_provider(n, i, m)
    \/ \E n \in ProviderArgs \ {None} : Call_set_default_provider(n)
    \/ \E p \in {None, "", BarePath, DEFAULT_DB_PATH}, n \in ProviderArgs :
          Call_resolve_provider(p, n)
    \/ \E tg \in InitTargets : Call_init_db(tg[1], tg[2])
    \/ \E tg \in Targets : Call_save_message("u1", "user", "hi", tg[1], tg[2]) /\ FewMessages
    \/ \E tg \in Targets, o \in Permutations(1..MaxMessages) :
          Call_get_history("u1", 1, tg[1], tg[2], o)
    \/ \E tg \in Targets : Call_get_session_state("u1", tg[1], tg[2])
    \/ \E tg \in Targets : Call_set_session_state("u1", "calm", None, None, tg[1], tg[2])

Spec == Init /\ [][Next]_vars

----------------------------------------------------------------------------
(* SpecMessages: the message calls on the default provider, with two users,  *)
(* a null role, a clock that may or may not tick between two calls, and      *)
(* connect() and close() on the provider.                                    *)

Users == {"u1", "u2"}

\* limit=100 of get_history
DefaultLimit == 100

\* the limits passed to get_history: a negative one, one below the number of
\* rows a user can have, and the default
Limits == {0 - 1, 1, DefaultLimit}

StoreMessages == \A p \in DbPaths : Len(db'[p].messages) <= MaxStoreMessages

NextMessages ==
    \/ Call_init_db(None, None)
    \/ \E u \in Users, role \in {"user", None} :
          Call_save_message(u, role, "hi", None, None) /\ StoreMessages
    \/ \E u \in Users, l \in Limits, o \in Permutations(1..MaxStoreMessages) :
          Call_get_history(u, l, None, None, o)
    \/ Call_connect(1)
    \/ Call_close(1)
    \/ Tick

SpecMessages == Init /\ [][NextMessages]_vars

----------------------------------------------------------------------------
(* SpecSessions: the session calls on the default provider, with two users   *)
(* and every combination of given and omitted fields.                        *)

States == {None, "calm", "charged"}
IncidentTypes == {None, "fraud"}
Emotions == {None, "angry"}

NextSessions ==
    \/ Call_init_db(None, None)
    \/ \E u \in Users, st \in States, it \in IncidentTypes, em \in Emotions :
          Call_set_session_state(u, st, it, em, None, None)
    \/ \E u \in Users : Call_get_session_state(u, None, None)
    \/ Tick

SpecSessions == Init /\ [][NextSessions]_vars

----------------------------------------------------------------------------
(* SpecStore: the five ChatStore calls for two users on one database file,   *)
(* reached through the registered default provider and through an explicit   *)
(* path, with a null role, within one tick of the clock.                     *)

StorePaths == {None, DEFAULT_DB_PATH}

\* the engine's rankings of rows with equal created_at that SpecStore
\* explores: by id, ascending and descending
StoreOrders ==
    {[k \in 1..MaxStoreMessages |-> k], [k \in 1..MaxStoreMessages |-> MaxStoreMessages + 1 - k]}

NextStore ==
    \/ \E p \in StorePaths : Call_init_db(p, None)
    \/ \E u \in Users, role \in {"user", None}, p \in StorePaths :
          Call_save_message(u, role, "hi", p, None) /\ StoreMessages
    \/ \E u \in Users, l \in {1, DefaultLimit}, p \in StorePaths, o \in StoreOrders :
          Call_get_history(u, l, p, None, o)
    \/ \E u \in Users, p \in StorePaths : Call_get_session_state(u, p, None)
    \/ \E u \in Users, p \in StorePaths :
          Call_set_session_state(u, "calm", None, None, p, None)

SpecStore == Init /\ [][NextStore]_vars

----------------------------------------------------------------------------
(* SpecFactory: providers built by the factory and by the constructors of    *)
(* the stubs, and their registration.                                        *)

\* a config with the given type (NoType for a config without the key) and
\* the given other keys
NoType == "NoType"
Config(type, keys) ==
    [k \in keys \cup (IF type = NoType THEN {} ELSE {"type"}) |->
        IF k = "type" THEN type
        ELSE IF k = "db_path" THEN TmpPath
        ELSE IF k = "auto_create_dir" THEN FALSE
        ELSE k]

ConfigTypes == {NoType, None, "sqlite", "SQLite", "postgresql", "PostgreSQL", "mysql", "oracle"}
ConfigKeys ==
    {{}, {"db_path"}, {"db_path", "auto_create_dir"}, NetworkFields,
     NetworkFields \cup {"port"}, NetworkFields \ {"password"}, {"host"}}
Configs == {Config(ty, ks) : ty \in ConfigTypes, ks \in ConfigKeys}

NextFactory ==
    \/ \E config \in Configs : Call_create_provider_from_config(config)
    \/ Call_PostgreSQLProvider("host", 5432, "database", "user", "password")
    \/ Call_MySQLProvider("host", 3306, "database", "user", "password")
    \/ \E n \in RegNames \cup {"pg"}, i \in 1..MaxInstances, m \in BOOLEAN :
          Call_register_provider(n, i, m)
    \/ \E n \in RegNames \cup {"pg"} : Call_resolve_provider(None, n)

SpecFactory == Init /\ [][NextFactory]_vars

----------------------------------------------------------------------------
(* SpecConnections: the life of connections under sequential calls:          *)
(* providers for a database file and for a path that cannot be opened,       *)
(* connect(), close() and queries on them.                                   *)

NextConnections ==
    \/ \E p \in {TmpPath, DirPath} : Call_create_sqlite_provider(p)
    \/ \E i \in 1..MaxInstances : Call_connect(i)
    \/ \E i \in 1..MaxInstances : Call_close(i)
    \/ \E p \in {None, DirPath} : Call_init_db(p, None)
    \/ Call_get_session_state("u1", None, None)

SpecConnections == Init /\ [][NextConnections]_vars

----------------------------------------------------------------------------
(* SpecThreads: connect() called from several threads on the registered      *)
(* provider and on a second provider for the same file, one statement of     *)
(* connect() at a time.                                                      *)

NextThreads ==
    \/ Call_create_sqlite_provider(DEFAULT_DB_PATH)
    \/ \E t \in Threads, i \in 1..MaxInstances : Thread_connect_test(t, i)
    \/ \E t \in Threads : Thread_sqlite3_connect(t)
    \/ \E t \in Threads : Thread_foreign_keys_on(t)
    \/ \E t \in Threads : Thread_connect_return(t)

SpecThreads == Init /\ [][NextThreads]_vars

----------------------------------------------------------------------------
(* Properties of resolution and of the registry, checked under Spec *)

ChatStoreOps ==
    {"init_db", "save_message", "get_history", "get_session_state", "set_session_state"}
ResolvingOps == ChatStoreOps \cup {"_resolve_provider"}

\* C1: for every (db_path, provider) passed to _resolve_provider: a db_path
\* that is given (a non-empty string) yields a newly built backend for that
\* path, whatever the provider argument; otherwise a provider name that is
\* given yields the backend registered under it; otherwise the backend
\* registered under the default name is returned.
C1_ResolvePrecedence ==
    last.op = "_resolve_provider" =>
        IF Truthy(last.args.db_path)
        THEN /\ last.status = "ok"
             /\ last.inst \in DOMAIN heap
             /\ heap[last.inst].db_path = last.args.db_path
             /\ last.inst \notin Range(PROVIDERS)
        ELSE IF Truthy(last.args.provider)
        THEN last.args.provider \in DOMAIN PROVIDERS =>
                 last.status = "ok" /\ last.inst = PROVIDERS[last.args.provider]
        ELSE last.status = "ok" /\ last.inst = PROVIDERS[DEFAULT_PROVIDER]

\* C2: a provider name passed with no db_path that is not a key of the
\* registry, the empty string included, makes resolution and every ChatStore
\* call fail with KeyError and leaves the registry and the default name as
\* they were; it never falls back to the default backend.
C2_UnregisteredNameFails ==
    [][(/\ last'.op \in ResolvingOps
        /\ last'.args.db_path = None
        /\ last'.args.provider # None
        /\ last'.args.provider \notin DOMAIN PROVIDERS)
       => (/\ last'.status = "KeyError"
           /\ PROVIDERS' = PROVIDERS
           /\ DEFAULT_PROVIDER' = DEFAULT_PROVIDER)]_vars

\* a call that resolves with an explicit path
ExplicitPathCall == last.op \in ResolvingOps /\ last.args.db_path # None

\* the call built a backend for its db_path
BuiltForPath == Truthy(last.args.db_path) /\ last.status # "FileNotFoundError"

\* C3 as stated: a call with an explicit path leaves the registered names,
\* the instance bound to each and the default name as they were, binds the
\* backend built for the path to no name, and so leaves the results of
\* list_providers() and get_default_provider() unchanged.
C3_ListUnchanged ==
    [][ExplicitPathCall' =>
        (/\ PROVIDERS' = PROVIDERS
         /\ DEFAULT_PROVIDER' = DEFAULT_PROVIDER
         /\ BuiltForPath' => last'.inst \notin Range(PROVIDERS')
         /\ get_default_provider' = get_default_provider
         /\ list_providers(PROVIDERS, World)' = list_providers(PROVIDERS, World))]_vars

\* C3 amended: a call with an explicit path leaves the registered names, the
\* instance bound to each and the default name as they were and binds the
\* backend built for the path to no name; get_default_provider() is unchanged
\* and list_providers() keeps its names, each with the same type and db_path
\* (its exists flag is read from the disk and may change).
C3_RegistryFrame ==
    [][ExplicitPathCall' =>
        (/\ PROVIDERS' = PROVIDERS
         /\ DEFAULT_PROVIDER' = DEFAULT_PROVIDER
         /\ BuiltForPath' => last'.inst \notin Range(PROVIDERS')
         /\ get_default_provider' = get_default_provider
         /\ DOMAIN list_providers(PROVIDERS, World)' = DOMAIN list_providers(PROVIDERS, World)
         /\ \A n \in DOMAIN PROVIDERS :
               /\ list_providers(PROVIDERS, World)'[n].type
                     = list_providers(PROVIDERS, World)[n].type
               /\ list_providers(PROVIDERS, World)'[n].db_path
                     = list_providers(PROVIDERS, World)[n].db_path)]_vars

\* a ChatStore call with an explicit path has written to the file of a
\* provider registered under a second name
C3_Witness ==
    /\ last.op = "save_message"
    /\ last.args.db_path = DEFAULT_DB_PATH
    /\ last.status = "ok"
    /\ Cardinality(DOMAIN PROVIDERS) = 2

\* C4: in every reachable state the default name is a key of the registry,
\* and a call that resolves the default never fails with KeyError.
C4_DefaultRegistered ==
    /\ DEFAULT_PROVIDER \in DOMAIN PROVIDERS
    /\ (/\ last.op \in ResolvingOps
        /\ ~Truthy(last.args.db_path)
        /\ ~Truthy(last.args.provider)) => last.status # "KeyError"

\* the default was moved to a second provider, and a call resolved it
C4_Witness ==
    /\ DEFAULT_PROVIDER = ""
    /\ PROVIDERS[DEFAULT_PROVIDER] = 2
    /\ last.op = "get_history"
    /\ last.args.db_path = None
    /\ last.args.provider = None
    /\ last.status = "ok"
    /\ last.inst = 2

\* C5: set_default_provider(name) with an unregistered name raises KeyError
\* and leaves the default name and the registry as they were; with a
\* registered name it sets the default to that name and changes nothing else.
C5_SetDefault ==
    [][last'.op = "set_default_provider" =>
        (/\ PROVIDERS' = PROVIDERS
         /\ UNCHANGED <<heap, conns, db, files, now>>
         /\ IF last'.args.name \in DOMAIN PROVIDERS
            THEN last'.status = "ok" /\ DEFAULT_PROVIDER' = last'.args.name
            ELSE last'.status = "KeyError" /\ DEFAULT_PROVIDER' = DEFAULT_PROVIDER)]_vars

\* set_default_provider("missing") has failed while the default was a name
\* other than the one set at start-up
C5_Witness ==
    /\ last.op = "set_default_provider"
    /\ last.args.name = "missing"
    /\ last.status = "KeyError"
    /\ DEFAULT_PROVIDER = ""

----------------------------------------------------------------------------
(* Properties of the transaction guard and of the messages, checked under    *)
(* SpecMessages                                                              *)

\* the statement of the call raised (the connection was obtained)
StatementRaised == last.op \in ChatStoreOps /\ last.status # "ok" /\ last.conn # 0

\* C6: when the statement run through get_connection raises, the transaction
\* is rolled back before the error reaches the caller, the error is the
\* statement's (a null role is IntegrityError, a missing table is
\* OperationalError, never a normal return), the committed contents are those
\* before the call, and the provider's connection is the same, open, and in no
\* transaction.
C6_RollbackAndReraise ==
    [][/\ StatementRaised' =>
            /\ db' = db
            /\ last'.inst \in DOMAIN heap'
            /\ heap'[last'.inst].connection = last'.conn
            /\ heap[last'.inst].connection \in {0, last'.conn}
            /\ conns'[last'.conn].open
            /\ conns'[last'.conn].tx = <<>>
       /\ (last'.op = "save_message" /\ last'.inst # 0) =>
            LET had == "messages" \in db[heap[last'.inst].db_path].tables
            IN  /\ ~had => last'.status = "OperationalError"
                /\ (had /\ last'.args.role = None) => last'.status = "IntegrityError"
       /\ (last'.op = "get_history" /\ last'.inst # 0
             /\ "messages" \notin db[heap[last'.inst].db_path].tables) =>
            last'.status = "OperationalError"]_vars

\* save_message with a null role raised on a store that holds messages
C6_Witness ==
    /\ last.op = "save_message"
    /\ last.args.role = None
    /\ last.status = "IntegrityError"
    /\ Len(db[DEFAULT_DB_PATH].messages) >= 1
    /\ heap[1].connection = last.conn

\* no connection holds uncommitted changes
NoPending == \A c \in DOMAIN conns : conns[c].tx = <<>>

\* C7: between calls no connection holds uncommitted changes, and a
\* connection a provider holds stays its open connection and is the one its
\* next call uses, until close() is called on the provider.
C7_CommitAndKeepOpen ==
    [][/\ NoPending'
       /\ \A i \in DOMAIN heap :
             (heap[i].connection # 0 /\ ~(last'.op = "close" /\ last'.inst = i)) =>
                /\ heap'[i].connection = heap[i].connection
                /\ conns'[heap[i].connection].open
                /\ (last'.op \in ChatStoreOps /\ last'.inst = i) =>
                       last'.conn = heap[i].connection]_vars

\* get_history ran on the connection the first call opened, after two
\* messages were saved through it
C7_Witness ==
    /\ last.op = "get_history"
    /\ last.status = "ok"
    /\ last.conn = 1
    /\ heap[1].connection = 1
    /\ Len(db[DEFAULT_DB_PATH].messages) >= 2
    /\ Len(last.value.rows) >= 2

\* C10: get_history(U) with a limit of at least the number of U's messages
\* returns exactly U's messages in the order they were inserted, with
\* non-decreasing created_at; messages with equal created_at are in
\* insertion (id) order too.
C10_HistoryInInsertionOrder ==
    (/\ last.op = "get_history"
     /\ last.status = "ok"
     /\ last.args.limit
           >= Len(RowsOf(db[heap[last.inst].db_path].messages, last.args.user_id)))
    => /\ last.value.rows = RowsOf(db[heap[last.inst].db_path].messages, last.args.user_id)
       /\ \A k \in 1..(Len(last.value.rows) - 1) :
             /\ last.value.rows[k].created_at <= last.value.rows[k + 1].created_at
             /\ last.value.rows[k].id < last.value.rows[k + 1].id

----------------------------------------------------------------------------
(* Properties of the session rows, checked under SpecSessions *)

\* the number of session rows of user u in the file at path p
SessionRows(p, u) == Len(RowsOf(db[p].sessions, u))

\* the file a call worked on
PathOf(l) == heap[l.inst].db_path

\* a set_session_state call has returned normally
SessionWritten == last.op = "set_session_state" /\ last.status = "ok"

\* C8: the sessions table holds at most one row per user_id, and exactly one
\* row for each user that was written at least once: a write leaves one row
\* for its user, and no other step adds or removes a row.
C8_OneRowPerUser ==
    [][\A p \in DbPaths, u \in Users :
          /\ SessionRows(p, u)' <= 1
          /\ IF SessionWritten' /\ PathOf(last') = p /\ last'.args.user_id = u
             THEN SessionRows(p, u)' = 1
             ELSE SessionRows(p, u)' = SessionRows(p, u)]_vars

\* both users have a row, and the row inserted first was written again later
C8_Witness ==
    /\ SessionWritten
    /\ Len(db[DEFAULT_DB_PATH].sessions) = 2
    /\ db[DEFAULT_DB_PATH].sessions[1].user_id = last.args.user_id
    /\ db[DEFAULT_DB_PATH].sessions[1].updated_at > db[DEFAULT_DB_PATH].sessions[2].updated_at

\* state, incident_type and emotion of the first session row of user u in the
\* file at path p, None for each when there is no row
SessionFields(p, u) ==
    IF RowsOf(db[p].sessions, u) = <<>>
    THEN <<None, None, None>>
    ELSE <<RowsOf(db[p].sessions, u)[1].state,
           RowsOf(db[p].sessions, u)[1].incident_type,
           RowsOf(db[p].sessions, u)[1].emotion>>

\* C9: set_session_state is a last-write-wins full replace: a write sets the
\* three fields of its user to the values passed, None for each omitted one;
\* no other step changes them; and get_session_state(U) returns them.
C9_LastWriteWins ==
    [][/\ \A p \in DbPaths, u \in Users :
             IF SessionWritten' /\ PathOf(last') = p /\ last'.args.user_id = u
             THEN SessionFields(p, u)'
                     = <<last'.args.state, last'.args.incident_type, last'.args.emotion>>
             ELSE SessionFields(p, u)' = SessionFields(p, u)
       /\ (last'.op = "get_session_state" /\ last'.status = "ok") =>
             /\ last'.value.row.user_id = last'.args.user_id
             /\ <<last'.value.row.state, last'.value.row.incident_type, last'.value.row.emotion>>
                   = SessionFields(PathOf(last'), last'.args.user_id)]_vars

\* get_session_state returned a row that was inserted first and written again
\* later, with state omitted and incident_type given in the last write
C9_Witness ==
    /\ last.op = "get_session_state"
    /\ last.status = "ok"
    /\ last.value.row.state = None
    /\ last.value.row.incident_type = "fraud"
    /\ Len(db[DEFAULT_DB_PATH].sessions) = 2
    /\ db[DEFAULT_DB_PATH].sessions[1].user_id = last.args.user_id
    /\ db[DEFAULT_DB_PATH].sessions[1].updated_at > db[DEFAULT_DB_PATH].sessions[2].updated_at

----------------------------------------------------------------------------
(* Properties of get_history's limit, checked under SpecMessages *)

\* the messages of the user of a get_history call l, in the file it read
MessagesOf(l) == RowsOf(db[heap[l.inst].db_path].messages, l.args.user_id)

\* C11: for every user and every limit passed to get_history the result has
\* at most limit entries, all of them messages of the user, and when the user
\* has more than limit messages the result is limit of them in ascending
\* created_at, none later than a message left out.
C11_LimitCaps ==
    (last.op = "get_history" /\ last.status = "ok") =>
        /\ Len(last.value.rows) <= last.args.limit
        /\ Range(last.value.rows) \subseteq Range(MessagesOf(last))
        /\ Len(MessagesOf(last)) > last.args.limit =>
              /\ Len(last.value.rows) = last.args.limit
              /\ \A k \in 1..(Len(last.value.rows) - 1) :
                    last.value.rows[k].created_at <= last.value.rows[k + 1].created_at
              /\ \A r \in Range(last.value.rows), q \in Range(MessagesOf(last)) \ Range(last.value.rows) :
                    r.created_at <= q.created_at

----------------------------------------------------------------------------
(* Properties of the reads for a user without rows, checked under Spec *)

\* the file a ChatStore call l works on: its db_path when one is given, the
\* file of the registered provider it resolved otherwise
CallPath(l) == IF Truthy(l.args.db_path) THEN l.args.db_path ELSE heap[l.inst].db_path

\* the record get_session_state returns for a user without a session row
AbsentSession(user_id) ==
    [user_id |-> user_id, state |-> None, incident_type |-> None, emotion |-> None,
     updated_at |-> NoTime]

\* C12: get_session_state(U) and get_history(U) on a resolved backend whose
\* file holds no message row and no session row of U raise no error, return
\* the record with user_id = U and every other field absent, respectively the
\* empty list, and leave the contents of every file as they were.
C12_AbsentUserDefaults ==
    [][(/\ last'.op \in {"get_session_state", "get_history"}
        /\ last'.inst # 0
        /\ CallPath(last)' \in DbPaths
        /\ RowsOf(db[CallPath(last)'].messages, last'.args.user_id) = <<>>
        /\ RowsOf(db[CallPath(last)'].sessions, last'.args.user_id) = <<>>)
       => (/\ last'.status = "ok"
           /\ last'.op = "get_history" => last'.value = [rows |-> <<>>]
           /\ last'.op = "get_session_state" =>
                 last'.value = [row |-> AbsentSession(last'.args.user_id)]
           /\ db' = db)]_vars

----------------------------------------------------------------------------
(* Properties of the connection of a provider *)

\* the open connections that provider i opened
LiveConnections(i) == {c \in DOMAIN conns : conns[c].owner = i /\ conns[c].open}

\* C13: under every interleaving of connect() calls of several threads on
\* one provider, the provider has at most one open connection at any time,
\* and the calls that returned obtained the same connection. Checked under
\* SpecThreads.
C13_OneLiveConnection ==
    /\ \A i \in DOMAIN heap : Cardinality(LiveConnections(i)) <= 1
    /\ \A t1, t2 \in Threads :
          (/\ calls[t1].got # 0
           /\ calls[t2].got # 0
           /\ calls[t1].inst = calls[t2].inst) => calls[t1].got = calls[t2].got

\* C14: connect() on a provider that holds a connection returns that
\* connection and opens nothing; close() leaves the provider with no
\* connection and none of its connections open, raises nothing, and changes
\* nothing at all when the provider holds no connection (so a second close()
\* leaves the state of the first); and connect() or a query on a provider
\* that holds no connection opens a new connection and holds it. Checked
\* under SpecMessages.
C14_ConnectCloseIdempotent ==
    [][/\ (last'.op = "connect" /\ heap[last'.inst].connection # 0) =>
             /\ last'.status = "ok"
             /\ last'.conn = heap[last'.inst].connection
             /\ UNCHANGED <<heap, conns, db, files>>
       /\ last'.op = "close" =>
             /\ last'.status = "ok"
             /\ heap'[last'.inst].connection = 0
             /\ LiveConnections(last.inst)' = {}
             /\ UNCHANGED <<db, files>>
             /\ heap[last'.inst].connection = 0 => UNCHANGED <<heap, conns>>
       /\ (/\ last'.op \in ChatStoreOps \cup {"connect"}
           /\ last'.inst # 0
           /\ heap[last'.inst].connection = 0) =>
             /\ last'.conn \notin DOMAIN conns
             /\ last'.conn \in DOMAIN conns'
             /\ conns'[last'.conn].open
             /\ heap'[last'.inst].connection = last'.conn]_vars

\* close() was called on a provider that held no connection, after the
\* provider was connected, closed, connected again and closed
C14_Witness ==
    /\ last.op = "close"
    /\ last.conn = 0
    /\ DOMAIN conns = {1, 2}
    /\ ~conns[1].open
    /\ ~conns[2].open
    /\ heap[1].connection = 0

\* C15: whenever a provider holds a connection, that connection is open and
\* enforces foreign keys; this includes a connection opened again after
\* close() and the states after a connect() that raised. Checked under
\* SpecConnections.
C15_ForeignKeysOn ==
    \A i \in DOMAIN heap :
        heap[i].connection # 0 =>
            /\ heap[i].connection \in DOMAIN conns
            /\ conns[heap[i].connection].open
            /\ conns[heap[i].connection].fk

\* connect() has just raised on a provider whose path cannot be opened, while
\* the registered provider holds the connection it opened after a close()
C15_Witness ==
    /\ last.op = "connect"
    /\ last.status = "OperationalError"
    /\ heap[last.inst].connection = 0
    /\ heap[1].connection = 2
    /\ ~conns[1].open
    /\ conns[2].fk

----------------------------------------------------------------------------
(* Properties of the factory and of the stubs, checked under SpecFactory *)

\* the config of a factory call l names a network type and has every key the
\* factory reads for it
StubConfig(l) ==
    /\ l.op = "create_provider_from_config"
    /\ "type" \in DOMAIN l.args.config
    /\ l.args.config["type"] \in {"postgresql", "mysql"}
    /\ NetworkFields \subseteq DOMAIN l.args.config

\* the call l constructs a stub backend
StubConstruction(l) == l.op \in {"PostgreSQLProvider", "MySQLProvider"} \/ StubConfig(l)

\* C16: constructing a stub backend, directly or through
\* create_provider_from_config with type postgresql or mysql and every
\* required field, fails with NotImplementedError, returns no instance,
\* creates no object and no connection and leaves the registry and the
\* default as they were; and every backend in the registry is a
\* SQLiteProvider, whatever factory and register_provider calls were made.
C16_StubsFail ==
    [][/\ StubConstruction(last)' =>
             /\ last'.status = "NotImplementedError"
             /\ last'.value = NoValue
             /\ UNCHANGED <<PROVIDERS, DEFAULT_PROVIDER, heap, conns, db, files>>
       /\ \A n \in DOMAIN PROVIDERS' : heap'[PROVIDERS'[n]].kind = "SQLiteProvider"]_vars

\* the factory has just failed for a postgresql config with every field, in
\* a state where a provider built by the factory is registered
C16_Witness ==
    /\ StubConfig(last)
    /\ last.args.config["type"] = "postgresql"
    /\ last.status = "NotImplementedError"
    /\ "pg" \in DOMAIN PROVIDERS
    /\ PROVIDERS["pg"] = 2

\* the type names the factory recognises
KnownTypes == {"sqlite", "postgresql", "mysql"}

\* the config of a factory call l has no type, a type that is not
\* recognised, or a recognised type without one of its required fields
BadConfig(l) ==
    /\ l.op = "create_provider_from_config"
    /\ get(l.args.config, "type", "") # None
    /\ \/ lower(get(l.args.config, "type", "")) \notin KnownTypes
       \/ /\ lower(get(l.args.config, "type", "")) = "sqlite"
          /\ "db_path" \notin DOMAIN l.args.config
       \/ /\ lower(get(l.args.config, "type", "")) \in {"postgresql", "mysql"}
          /\ ~(NetworkFields \subseteq DOMAIN l.args.config)

\* C17: create_provider_from_config fails with ValueError, and returns no
\* backend, when the type is missing or not recognised and when a required
\* field of a recognised type is missing.
C17_ConfigErrors ==
    BadConfig(last) => (last.status = "ValueError" /\ last.value = NoValue)

----------------------------------------------------------------------------
(* Properties of registration, checked under Spec *)

\* a call that resolves by name: no db_path, and a provider name
ResolvesByName(l) ==
    l.op \in ResolvingOps /\ l.args.db_path = None /\ l.args.provider # None

\* a call that resolves the default: neither db_path nor provider
ResolvesDefault(l) ==
    l.op \in ResolvingOps /\ l.args.db_path = None /\ l.args.provider = None

\* C18: register_provider(n, b) binds n to b, replacing the backend bound to
\* n before, and leaves the entries of the other names as they were; a
\* resolution by a registered name uses the backend bound to the name by its
\* latest registration, and a default resolution uses the backend bound to
\* the default name by its latest registration.
C18_LastRegistrationWins ==
    [][/\ last'.op = "register_provider" =>
             /\ DOMAIN PROVIDERS' = DOMAIN PROVIDERS \cup {last'.args.name}
             /\ PROVIDERS'[last'.args.name] = last'.args.provider
             /\ \A n \in DOMAIN PROVIDERS \ {last'.args.name} : PROVIDERS'[n] = PROVIDERS[n]
       /\ (ResolvesByName(last)' /\ last'.args.provider \in DOMAIN PROVIDERS) =>
             last'.inst = PROVIDERS[last'.args.provider]
       /\ ResolvesDefault(last)' => last'.inst = PROVIDERS[DEFAULT_PROVIDER]]_vars

\* C19: register_provider(name, backend, make_default=True) raises nothing
\* and get_default_provider() returns name afterwards; register_provider
\* with make_default false raises nothing and leaves the default name as it
\* was.
C19_MakeDefault ==
    [][last'.op = "register_provider" =>
          /\ last'.status = "ok"
          /\ IF last'.args.make_default
             THEN get_default_provider' = last'.args.name
             ELSE get_default_provider' = get_default_provider]_vars

\* a name that was not registered before has just been registered as the
\* default, bound to a second provider
C19_Witness ==
    /\ last.op = "register_provider"
    /\ last.args.make_default
    /\ last.args.name = ""
    /\ last.args.provider = 2
    /\ last.status = "ok"
    /\ DEFAULT_PROVIDER = ""
    /\ PROVIDERS[""] = 2

----------------------------------------------------------------------------
(* Properties of init_db, checked under Spec *)

\* both tables exist in the contents store
Initialised(store) == {"messages", "sessions"} \subseteq store.tables

\* C20: init_db leaves every message row and every session row of every
\* file as it was; when it returns normally both tables exist in the file of
\* its backend and the value returned is the path of that backend; and on a
\* backend whose file already has both tables it raises nothing.
C20_InitIdempotent ==
    [][last'.op = "init_db" =>
          /\ \A p \in DbPaths :
                /\ db'[p].messages = db[p].messages
                /\ db'[p].sessions = db[p].sessions
          /\ last'.status = "ok" =>
                /\ CallPath(last)' \in DbPaths
                /\ Initialised(db'[CallPath(last)'])
                /\ last'.value = [path |-> CallPath(last)']
          /\ (/\ last'.inst # 0
              /\ CallPath(last)' \in DbPaths
              /\ Initialised(db[CallPath(last)'])) => last'.status = "ok"]_vars

\* init_db with an explicit path has returned on a file that already held a
\* message row and a session row
C20_Witness ==
    /\ last.op = "init_db"
    /\ last.args.db_path = DEFAULT_DB_PATH
    /\ last.status = "ok"
    /\ last.value = [path |-> DEFAULT_DB_PATH]
    /\ Len(db[DEFAULT_DB_PATH].messages) >= 1
    /\ Len(db[DEFAULT_DB_PATH].sessions) >= 1

----------------------------------------------------------------------------
(* Properties of the stored rows, checked under SpecStore *)

\* save_message has returned normally on the file at path p
MessageSaved(p) == last.op = "save_message" /\ last.status = "ok" /\ CallPath(last) = p

\* C21: whatever ChatStore call is made, and whether it returns or raises,
\* the message rows a file held before are still its first rows, unchanged
\* in every column; a save_message that returns normally adds exactly one
\* row, with the user_id, role and content passed, and no other call adds
\* one; the ids of the rows are strictly increasing in insertion order.
C21_AppendOnly ==
    [][\A p \in DbPaths :
          /\ Len(db'[p].messages) >= Len(db[p].messages)
          /\ SubSeq(db'[p].messages, 1, Len(db[p].messages)) = db[p].messages
          /\ IF MessageSaved(p)'
             THEN /\ Len(db'[p].messages) = Len(db[p].messages) + 1
                  /\ db'[p].messages[Len(db'[p].messages)].user_id = last'.args.user_id
                  /\ db'[p].messages[Len(db'[p].messages)].role = last'.args.role
                  /\ db'[p].messages[Len(db'[p].messages)].content = last'.args.content
             ELSE Len(db'[p].messages) = Len(db[p].messages)
          /\ \A k \in 1..(Len(db'[p].messages) - 1) :
                db'[p].messages[k].id < db'[p].messages[k + 1].id]_vars

\* save_message has just raised for a null role on a file that holds three
\* messages of two users and a session row
C21_Witness ==
    /\ last.op = "save_message"
    /\ last.status = "IntegrityError"
    /\ Len(db[DEFAULT_DB_PATH].messages) = 3
    /\ db[DEFAULT_DB_PATH].messages[1].user_id # db[DEFAULT_DB_PATH].messages[3].user_id
    /\ Len(db[DEFAULT_DB_PATH].sessions) >= 1

\* a ChatStore call with an explicit path that built its backend
PathCall(l) == l.op \in ChatStoreOps /\ Truthy(l.args.db_path) /\ l.inst # 0

\* a call of the function op with an explicit path that returned normally
PathCallReturned(l, op) == PathCall(l) /\ l.op = op /\ l.status = "ok"

C23_OtherUsersUnchanged ==
    [][/\ last'.op \in ChatStoreOps \ {"init_db"} =>
             \A p \in DbPaths, v \in Users \ {last'.args.user_id} :
                /\ RowsOf(db'[p].messages, v) = RowsOf(db[p].messages, v)
                /\ RowsOf(db'[p].sessions, v) = RowsOf(db[p].sessions, v)
       /\ (last'.op = "get_history" /\ last'.status = "ok") =>
             \A k \in 1..Len(last'.value.rows) : last'.value.rows[k].user_id = last'.args.user_id]_vars

\* set_session_state for one user has just returned on a file that holds
\* messages of both users and a session row of the other user
C23_Witness ==
    /\ last.op = "set_session_state"
    /\ last.status = "ok"
    /\ \E v \in Users \ {last.args.user_id} :
          /\ RowsOf(db[DEFAULT_DB_PATH].messages, v) # <<>>
          /\ RowsOf(db[DEFAULT_DB_PATH].sessions, v) # <<>>
    /\ RowsOf(db[DEFAULT_DB_PATH].messages, last.args.user_id) # <<>>

====
